---------------------------- MODULE Spec2Model ----------------------------
(***************************************************************************)
(* A model of priroda's two renderers:                                     *)
(*   src/src/render/graphviz.rs  (render_html, render_mir_svg, ...)        *)
(*   src/src/render/source.rs    (render_source, syntax_highlight,         *)
(*                                mark_span, the highlight cache)          *)
(*                                                                         *)
(* A text is a sequence of UTF-8 bytes.  Four byte classes are kept:       *)
(*   "a"  an ASCII byte            "n"  the line terminator '\n'           *)
(*   "H"  the lead byte of a two-byte character                            *)
(*   "T"  the continuation byte of that character                          *)
(* so that byte offsets, character offsets and character boundaries are    *)
(* three different things, as they are for a Rust String.                  *)
(*                                                                         *)
(* An Option<T> is a sequence of length 0 (None) or 1 (Some).              *)
(* A panic (assert!, unwrap, slicing out of bounds, overflow check) is the *)
(* value [kind |-> "panic", why |-> ...]; a normal return has kind "ok".   *)
(***************************************************************************)
EXTENDS Integers, Sequences, FiniteSets, TLC

VARIABLES
    pc,               \* position of the caller: which operation ran last
    overflow_checks,  \* build mode: TRUE = debug (overflow panics), FALSE = release (wraps)
    tokenizer,        \* syntect's HighlightLines::highlight, a function of the line
    src_text,         \* the text given to syntax_highlight / mark_span
    highlighted,      \* the result of syntax_highlight(src_text)
    span_in,          \* the (lo, hi) given to mark_span
    marked,           \* the result of mark_span
    body,             \* the mir::Body of the frame being rendered
    breakpoints,      \* LocalBreakpoints: the set of marked Locations
    request,          \* the argument of the last graph/source render call
    rendered,         \* the result of render_html / render_mir_svg
    cache,            \* CACHED_HIGHLIGHTED_FILES of this thread: hash -> entry
    highlight_runs,   \* how often syntax_highlight ran, per text (a test's side counter)
    source_out        \* the result of render_source

vars == <<pc, overflow_checks, tokenizer, src_text, highlighted, span_in, marked,
          body, breakpoints, request, rendered, cache, highlight_runs, source_out>>

textVars == <<src_text, highlighted, span_in, marked>>
graphVars == <<body, breakpoints, rendered>>
sourceVars == <<cache, highlight_runs, source_out>>

---------------------------------------------------------------------------
(* Bounds of the model. *)

\* longest text (in bytes) given to syntax_highlight and mark_span
MaxLen == 3

---------------------------------------------------------------------------
(* Option, panics. *)

None == <<>>
Some(x) == <<x>>

Panic(why) == [kind |-> "panic", why |-> why]

\* usize arithmetic wraps modulo 2^64 in a release build.  TLC's integers have
\* 32 bits, so the modulus is scaled to 2^30: every length of the model is far
\* below it, which is all the code's behaviour depends on.
UsizeRange == 2^30

Min(S) == CHOOSE x \in S : \A y \in S : x <= y

---------------------------------------------------------------------------
(* Texts. *)

Bytes == {"a", "n", "H", "T"}

\* a String is valid UTF-8: a lead byte is followed by its continuation byte,
\* and a continuation byte follows a lead byte
IsUtf8(s) ==
    \A i \in 1..Len(s) :
        /\ s[i] = "H" => (i < Len(s) /\ s[i+1] = "T")
        /\ s[i] = "T" => (i > 1 /\ s[i-1] = "H")

Texts(n) == {s \in UNION {[1..k -> Bytes] : k \in 0..n} : IsUtf8(s)}

\* str::is_char_boundary(i), i a byte offset
IsCharBoundary(s, i) ==
    \/ i = 0
    \/ i = Len(s)
    \/ (0 < i /\ i < Len(s) /\ s[i+1] # "T")

\* the number of characters that start before byte offset b
CharsBefore(s, b) == Cardinality({i \in 1..b : i <= Len(s) /\ s[i] # "T"})

RECURSIVE Concat(_)
\* the text of a list of (style, str) pairs, markup ignored
Concat(toks) ==
    IF toks = <<>> THEN <<>> ELSE Head(toks).str \o Concat(Tail(toks))

RECURSIVE LinesWithEndings(_)
\* syntect::util::LinesWithEndings: each line keeps its '\n'; the last line may
\* have none; the empty text has no line
LinesWithEndings(src) ==
    IF src = <<>> THEN <<>>
    ELSE LET nl == {i \in 1..Len(src) : src[i] = "n"}
             split == IF nl = {} THEN Len(src) ELSE Min(nl)
         IN  <<SubSeq(src, 1, split)>>
                 \o LinesWithEndings(SubSeq(src, split + 1, Len(src)))

---------------------------------------------------------------------------
(* The tokenizer (syntect), an external collaborator.  All that is assumed *)
(* of it: it splits the line it is fed into consecutive non-empty &str     *)
(* tokens covering the line, each with a style.                            *)

Styles == {"plain", "keyword"}

RECURSIVE Splits(_)
Splits(line) ==
    IF line = <<>> THEN {<<>>}
    ELSE UNION {
           {<<[style |-> st, str |-> SubSeq(line, 1, k)]>> \o rest :
               st \in Styles, rest \in Splits(SubSeq(line, k + 1, Len(line)))} :
           k \in {j \in 1..Len(line) : IsCharBoundary(line, j)}}

RECURSIVE TokenizersFor(_)
\* every tokenizer on the set of lines L
TokenizersFor(L) ==
    IF L = {} THEN {<<>>}
    ELSE LET l == CHOOSE x \in L : TRUE
         IN  {(l :> s) @@ f : s \in Splits(l), f \in TokenizersFor(L \ {l})}

LinesOf(src) == {LinesWithEndings(src)[i] : i \in 1..Len(LinesWithEndings(src))}

---------------------------------------------------------------------------
(* syntax_highlight, source.rs 175-198 *)

RECURSIVE HighlightTokensReset(_, _, _)
\* a faulty variant: the running offset restarts at every line
HighlightTokensReset(toks, index, acc) ==
    IF toks = <<>> THEN [index |-> 0, highlighted |-> acc]
    ELSE LET idx == index
             nindex == index + Len(Head(toks).str)
         IN  HighlightTokensReset(Tail(toks), nindex,
                 Append(acc, [style |-> Head(toks).style,
                              range |-> [start |-> idx, end |-> nindex]]))

RECURSIVE HighlightTokens(_, _, _)
\* the closure of lines 190-194 over the tokens of one line:
\*   let idx = index; index += str.len(); (style, idx..index)
HighlightTokens(toks, index, acc) ==
    IF toks = <<>> THEN [index |-> index, highlighted |-> acc]
    ELSE LET idx == index
             nindex == index + Len(Head(toks).str)
         IN  HighlightTokens(Tail(toks), nindex,
                 Append(acc, [style |-> Head(toks).style,
                              range |-> [start |-> idx, end |-> nindex]]))

RECURSIVE HighlightLines(_, _, _)
\* the loop of lines 186-196: highlighted.extend(h.highlight(line, ..).map(..))
HighlightLines(lines, index, acc) ==
    IF lines = <<>> THEN acc
    ELSE LET r == HighlightTokens(tokenizer[Head(lines)], index, acc)
         IN  HighlightLines(Tail(lines), r.index, r.highlighted)

syntax_highlight(src) == HighlightLines(LinesWithEndings(src), 0, <<>>)

---------------------------------------------------------------------------
(* mark_span, source.rs 200-219 *)

\* &file_contents[range]: panics unless start <= end <= len, both on
\* character boundaries
Slice(s, range) ==
    IF /\ range.start <= range.end
       /\ range.end <= Len(s)
       /\ IsCharBoundary(s, range.start)
       /\ IsCharBoundary(s, range.end)
    THEN [kind |-> "ok", str |-> SubSeq(s, range.start + 1, range.end)]
    ELSE Panic("str slice")

RECURSIVE SplitConsume(_, _, _)
\* syntect::util::split_at, its first loop: tokens wholly before the split
\*   for tok in rest { if tok.1.len() > rest_split_i { break; }
\*                     before.push(tok.clone()); rest_split_i -= tok.1.len(); }
SplitConsume(rest, rest_split_i, before) ==
    IF rest = <<>> \/ Len(Head(rest).str) > rest_split_i
    THEN [before |-> before, rest |-> rest, rest_split_i |-> rest_split_i]
    ELSE SplitConsume(Tail(rest), rest_split_i - Len(Head(rest).str),
                      Append(before, Head(rest)))

\* syntect::util::split_at(v, split_i), as called at lines 205-206.  The token
\* the split falls inside is cut with str::split_at, which panics off a
\* character boundary.
split_at(v, split_i) ==
    LET c == SplitConsume(v, split_i, <<>>)
    IN  IF c.rest # <<>> /\ c.rest_split_i > 0
        THEN LET tok == Head(c.rest)
             IN  IF ~IsCharBoundary(tok.str, c.rest_split_i)
                 THEN Panic("str::split_at")
                 ELSE [kind |-> "ok",
                       before |-> Append(c.before,
                           [style |-> tok.style,
                            str |-> SubSeq(tok.str, 1, c.rest_split_i)]),
                       after |-> <<[style |-> tok.style,
                                    str |-> SubSeq(tok.str, c.rest_split_i + 1,
                                                   Len(tok.str))]>>
                                 \o Tail(c.rest)]
        ELSE [kind |-> "ok", before |-> c.before, after |-> c.rest]

\* syntect::html::styled_line_to_highlighted_html: one <span style=..> run per
\* token (runs of one style share a span); the markup of an empty list is the
\* empty string, that of any other list is not.  The markup is kept as the
\* list of styled pieces it was made from.
styled_line_to_highlighted_html(v) == v

HtmlLen(html) == IF html = <<>> THEN 0 ELSE 1 + Len(Concat(html))

mark_span(file_contents, src, lo, hi) ==
    LET slices == [i \in 1..Len(src) |-> Slice(file_contents, src[i].range)]
    IN  IF \E i \in 1..Len(src) : slices[i].kind = "panic"
        THEN Panic("str slice")
        ELSE
        LET toks == [i \in 1..Len(src) |->
                        [style |-> src[i].style, str |-> slices[i].str]]
            s1 == split_at(toks, lo)
        IN  IF s1.kind = "panic" THEN s1
            ELSE IF hi < lo /\ overflow_checks
            THEN Panic("attempt to subtract with overflow")
            ELSE
            LET s2 == split_at(s1.after, (hi - lo) % UsizeRange)
            IN  IF s2.kind = "panic" THEN s2
                ELSE
                LET before == styled_line_to_highlighted_html(s1.before)
                    it == styled_line_to_highlighted_html(s2.before)
                    after == styled_line_to_highlighted_html(s2.after)
                IN  IF lo = hi
                    THEN IF HtmlLen(it) # 0 THEN Panic("assert_eq!(it.len(), 0)")
                         ELSE [kind |-> "ok", before |-> before,
                               marker |-> "glyph", it |-> <<>>, after |-> after]
                    ELSE IF HtmlLen(it) = 0 THEN Panic("assert_ne!(it.len(), 0)")
                         ELSE [kind |-> "ok", before |-> before,
                               marker |-> "wrap", it |-> it, after |-> after]

---------------------------------------------------------------------------
(* MIR: Body, BasicBlockData, Statement, Terminator, Location, Span.       *)
(* Blocks are indexed from 0, as BasicBlock::index() is; basic_blocks[b+1] *)
(* is the data of block b.                                                 *)

\* the longest Body: one unit per block, per statement and per successor
MaxBodySize == 4

\* the largest tag of a promoted passed to render_mir_svg
MaxPromoted == 0

\* a Span: a byte range lo..hi of a file, and the call site of the macro
\* expansion it came from, if any.  lines_ok: SourceMap::span_to_lines knows it.
MkSpan(id, file, lines_ok, lo, hi, call_site) ==
    [id |-> id, file |-> file, lines_ok |-> lines_ok, lo |-> lo, hi |-> hi,
     call_site |-> call_site]

DUMMY_SP == MkSpan(<<"dummy">>, "none", FALSE, 0, 0, None)

StatementKinds == {"Assign", "StorageLive"}

\* crate::should_hide_stmt: storage markers are not shown in full
should_hide_stmt(statement) == statement.kind = "StorageLive"

Location(block, statement_index) ==
    [block |-> block, statement_index |-> statement_index]

\* sequences over S of a length in lens
SeqsOf(S, lens) == UNION {[1..k -> S] : k \in lens}

Options(S) == {None} \cup {Some(x) : x \in S}

\* the terminators of a Body of n blocks with at most maxsucc successors.
\* targets: Goto's and Drop's and Assert's target, SwitchInt's targets, Call's
\* destination (an Option); unwind: Drop's unwind, Call's and Assert's cleanup.
Terminators(n, maxsucc) ==
    LET B == 0..(n - 1)
        T(kind, targets, unwind) ==
            [kind |-> kind, targets |-> targets, unwind |-> unwind,
             span |-> DUMMY_SP]
        all ==
            {T("Goto", <<t>>, None) : t \in B}
            \cup {T("SwitchInt", ts, None) : ts \in SeqsOf(B, 1..maxsucc)}
            \cup {T(k, <<t>>, u) :
                    k \in {"Drop", "DropAndReplace", "Assert"}, t \in B,
                    u \in Options(B)}
            \cup {T("Call", d, c) : d \in Options(B), c \in Options(B)}
            \cup {T("Return", <<>>, None)}
    IN  {t \in all : Len(t.targets) + Len(t.unwind) <= maxsucc}

BlockSize(blck) ==
    1 + Len(blck.statements) + Len(blck.terminator.targets)
      + Len(blck.terminator.unwind)

Blocks(n, budget) ==
    {blck \in
        [statements : SeqsOf([kind : StatementKinds, span : {DUMMY_SP}],
                             0..(budget - 1)),
         terminator : Terminators(n, budget - 1)] :
        BlockSize(blck) <= budget}

RECURSIVE BlockLists(_, _, _)
\* the lists of k blocks of a Body of n blocks within the budget
BlockLists(n, k, budget) ==
    IF k = 0 THEN {<<>>}
    ELSE UNION {
           {<<blck>> \o rest : rest \in BlockLists(n, k - 1, budget - BlockSize(blck))} :
           blck \in Blocks(n, budget - (k - 1))}

Bodies(size) ==
    UNION {{[span |-> DUMMY_SP, basic_blocks |-> bl] : bl \in BlockLists(n, n, size)} :
           n \in 1..size}

\* Terminator::successors (rustc_middle): the normal successors, then the
\* unwind/cleanup one
successors(terminator) ==
    CASE terminator.kind = "Goto" -> terminator.targets
      [] terminator.kind = "SwitchInt" -> terminator.targets
      [] terminator.kind \in {"Drop", "DropAndReplace", "Assert"} ->
             terminator.targets \o terminator.unwind
      [] terminator.kind = "Call" -> terminator.targets \o terminator.unwind
      [] OTHER -> <<>>

\* TerminatorKind::fmt_successor_labels (rustc_middle): one label per successor
fmt_successor_labels(terminator) ==
    CASE terminator.kind = "Goto" -> <<"">>
      [] terminator.kind = "SwitchInt" ->
             [i \in 1..Len(terminator.targets) |->
                 IF i = Len(terminator.targets) THEN "otherwise" ELSE "value"]
      [] terminator.kind \in {"Drop", "DropAndReplace"} ->
             IF terminator.unwind = None THEN <<"return">>
             ELSE <<"return", "unwind">>
      [] terminator.kind = "Call" ->
             (IF terminator.targets = None THEN <<>> ELSE <<"return">>)
             \o (IF terminator.unwind = None THEN <<>> ELSE <<"unwind">>)
      [] terminator.kind = "Assert" ->
             IF terminator.unwind = None THEN <<"">>
             ELSE <<"success", "unwind">>
      [] OTHER -> <<>>

---------------------------------------------------------------------------
(* graphviz.rs *)

\* node, lines 252-258
node(promoted, block) ==
    IF promoted # None THEN <<"promoted", promoted[1], block>>
    ELSE <<"bb", block>>

\* write_node_label, lines 159-213: the block's name, one row per statement,
\* the terminator's head
write_node_label(block, mir, bps, promoted) ==
    LET data == mir.basic_blocks[block + 1]
    IN  [blk |-> node(promoted, block),
         rows |-> [statement_index \in 1..Len(data.statements) |->
                     [mark |-> IF Location(block, statement_index - 1) \in bps
                               THEN "+ " ELSE "&nbsp; ",
                      text |-> IF should_hide_stmt(data.statements[statement_index])
                               THEN "<+>"
                               ELSE data.statements[statement_index].kind]],
         head |-> data.terminator.kind]

\* write_node, lines 216-232
write_node(block, mir, bps, promoted) ==
    [id |-> node(promoted, block),
     label |-> write_node_label(block, mir, bps, promoted)]

\* write_edges, lines 235-250: zip stops at the shorter of successors, labels
write_edges(source, mir) ==
    LET terminator == mir.basic_blocks[source + 1].terminator
        labels == fmt_successor_labels(terminator)
        succ == successors(terminator)
        n == IF Len(succ) <= Len(labels) THEN Len(succ) ELSE Len(labels)
    IN  [i \in 1..n |->
            [from |-> node(None, source), to |-> node(None, succ[i]),
             label |-> labels[i]]]

RECURSIVE Flatten(_)
Flatten(ss) == IF ss = <<>> THEN <<>> ELSE Head(ss) \o Flatten(Tail(ss))

\* render_mir_svg, lines 122-153.  The layout engine keeps the graph's
\* nodes and edges as the titled elements of the image; the image is kept as
\* the document it was rendered from.
render_mir_svg(mir, bps, promoted) ==
    LET n == Len(mir.basic_blocks)
    IN  [digraph |-> IF promoted # None THEN <<"promoted", promoted[1]>>
                     ELSE <<"Body">>,
         nodes |-> [i \in 1..n |-> write_node(i - 1, mir, bps, promoted)],
         edges |-> Flatten([i \in 1..n |-> write_edges(i - 1, mir)])]

\* the nodes of the graph a DOT document describes: those it declares and
\* those its edges name
GraphNodes(dot) ==
    {dot.nodes[i].id : i \in 1..Len(dot.nodes)}
    \cup {dot.edges[i].from : i \in 1..Len(dot.edges)}
    \cup {dot.edges[i].to : i \in 1..Len(dot.edges)}

\* a faulty variant: the terminator's row of a block with statements is len + 6
stmt_row_off(blck, statement_index) ==
    IF statement_index = Len(blck.statements)
    THEN IF blck.statements = <<>> THEN [kind |-> "ok", row |-> 6]
         ELSE [kind |-> "ok", row |-> Len(blck.statements) + 5]
    ELSE IF ~(statement_index < Len(blck.statements))
         THEN Panic("assert!(statement_index < blck.statements.len())")
         ELSE [kind |-> "ok", row |-> statement_index + 6]

\* render_html, lines 32-41: the row of the node's table that is marked
stmt_row(blck, statement_index) ==
    IF statement_index = Len(blck.statements)
    THEN IF blck.statements = <<>> THEN [kind |-> "ok", row |-> 6]
         ELSE [kind |-> "ok", row |-> Len(blck.statements) + 7]
    ELSE IF ~(statement_index < Len(blck.statements))
         THEN Panic("assert!(statement_index < blck.statements.len())")
         ELSE [kind |-> "ok", row |-> statement_index + 6]

\* a faulty variant: the successors are classified at every statement of the block
edge_targets_anywhere(blck, statement_index) ==
    LET terminator == blck.terminator
    IN  CASE terminator.kind \in {"Goto", "SwitchInt", "Drop", "DropAndReplace", "Call"} ->
                 [targets |-> terminator.targets, unwind |-> terminator.unwind]
          [] OTHER -> [targets |-> <<>>, unwind |-> None]

\* render_html, lines 46-69: (targets, unwind) of the current block
edge_targets(blck, statement_index) ==
    IF statement_index = Len(blck.statements)
    THEN LET terminator == blck.terminator
         IN  CASE terminator.kind = "Goto" ->
                      [targets |-> terminator.targets, unwind |-> None]
               [] terminator.kind = "SwitchInt" ->
                      [targets |-> terminator.targets, unwind |-> None]
               [] terminator.kind \in {"Drop", "DropAndReplace"} ->
                      [targets |-> terminator.targets, unwind |-> terminator.unwind]
               [] terminator.kind = "Call" ->
                      [targets |-> terminator.targets, unwind |-> terminator.unwind]
               [] OTHER -> [targets |-> <<>>, unwind |-> None]
    ELSE [targets |-> <<>>, unwind |-> None]

\* render_html, lines 70-84: the entries of `let edge_colors = {...}`, in order
edge_colors(block, blck, statement_index) ==
    LET tu == edge_targets(blck, statement_index)
    IN  [i \in 1..Len(tu.targets) |->
            [title |-> <<node(None, block), node(None, tu.targets[i])>>,
             color |-> "green"]]
        \o [i \in 1..Len(tu.unwind) |->
            [title |-> <<node(None, block), node(None, tu.unwind[i])>>,
             color |-> "red"]]

\* render_html, lines 16-119.  frame.loc = None: the image and the
\* "Unwinding" notice.  Otherwise the image and the overlay: the <style> that
\* marks row stmt of node bb, and the <script> with edge_colors.
render_html(frame, bps) ==
    LET svg == render_mir_svg(frame.body, bps, None)
    IN  IF frame.loc = None
        THEN [kind |-> "ok", svg |-> svg, unwinding |-> TRUE, overlay |-> None]
        ELSE
        LET block == frame.loc[1].block
            statement_index == frame.loc[1].statement_index
            blck == frame.body.basic_blocks[block + 1]
            stmt == stmt_row(blck, statement_index)
        IN  IF stmt.kind = "panic" THEN stmt
            ELSE [kind |-> "ok", svg |-> svg, unwinding |-> FALSE,
                  overlay |-> Some([bb |-> block + 1,
                                    stmt |-> stmt.row,
                                    edge_colors |->
                                        edge_colors(block, blck, statement_index)])]

---------------------------------------------------------------------------
(* source.rs: the source map, get_file_source_for_span, the highlight      *)
(* cache, render_source.                                                   *)

\* the longest macro backtrace: the spans of one chain, the innermost included
MaxChain == 3

\* the most statements of the block of a frame whose source is rendered
MaxFrameStmts == 1

\* most runs of syntax_highlight on one text that are followed
MaxHighlightRuns == 2

\* The files of the session's SourceMap.  main.rs is a local file (its src is
\* loaded) and holds a two-byte character; lib.rs is a file of another crate
\* (only external_src has its text); gone.rs has no text at all.
SourceFiles ==
    ("main.rs" :> [src |-> Some(<<"H", "T">>), external_src |-> None])
    @@ ("lib.rs" :> [src |-> None, external_src |-> Some(<<"a">>)])
    @@ ("gone.rs" :> [src |-> None, external_src |-> None])

FileText(file) ==
    IF SourceFiles[file].src # None THEN SourceFiles[file].src[1]
    ELSE IF SourceFiles[file].external_src # None
         THEN SourceFiles[file].external_src[1]
         ELSE <<>>

\* where a span may point: a range lo..hi of bytes of a file, both ends on
\* character boundaries; or a span the source map has no lines for
SpanTargets ==
    {t \in [file : DOMAIN SourceFiles, lines_ok : {TRUE},
            lo : 0..MaxLen, hi : 0..MaxLen] :
        /\ t.lo <= t.hi /\ t.hi <= Len(FileText(t.file))
        /\ IsCharBoundary(FileText(t.file), t.lo)
        /\ IsCharBoundary(FileText(t.file), t.hi)}
    \cup {[file |-> "main.rs", lines_ok |-> FALSE, lo |-> 0, hi |-> 0]}

RECURSIVE SpanOfChain(_, _, _)
\* the span id whose macro backtrace is chain[k+1], chain[k+2], ...
SpanOfChain(id, chain, k) ==
    MkSpan(IF k = 1 THEN id ELSE <<"call_site", k - 1>>,
           chain[k].file, chain[k].lines_ok, chain[k].lo, chain[k].hi,
           IF k < Len(chain) THEN Some(SpanOfChain(id, chain, k + 1)) ELSE None)

\* a Body of one block whose statements, terminator and body span all come
\* from the same expansion chain, and differ in their identity
SourceBody(nstmts, chain) ==
    [span |-> SpanOfChain(<<"body">>, chain, 1),
     basic_blocks |-> <<
        [statements |-> [i \in 1..nstmts |->
                            [kind |-> "Assign",
                             span |-> SpanOfChain(<<"stmt", 0, i - 1>>, chain, 1)]],
         terminator |-> [kind |-> "Return", targets |-> <<>>, unwind |-> None,
                         span |-> SpanOfChain(<<"term", 0>>, chain, 1)]]>>]

SourceBodies ==
    {SourceBody(n, chain) :
        n \in 0..MaxFrameStmts, chain \in SeqsOf(SpanTargets, 1..MaxChain)}

\* std's DefaultHasher over the text: the bytes folded into a usize
ByteCode(b) == CASE b = "a" -> 1 [] b = "n" -> 2 [] b = "H" -> 3 [] b = "T" -> 4

RECURSIVE HashFrom(_, _)
HashFrom(h, src) ==
    IF src = <<>> THEN h
    ELSE HashFrom((h * 5 + ByteCode(Head(src))) % UsizeRange, Tail(src))

Hash(src) == HashFrom(0, src)

\* SourceMap::bytepos_to_file_charpos: the byte offset less the extra bytes of
\* the multi-byte characters before it
bytepos_to_file_charpos(file, bpos) == CharsBefore(FileText(file), bpos)

\* get_file_source_for_span, lines 155-173
get_file_source_for_span(sp) ==
    IF ~sp.lines_ok
    THEN [kind |-> "err", text |-> "<couldnt get lines for span>"]
    ELSE LET file == SourceFiles[sp.file]
         IN  IF file.src = None /\ file.external_src = None
             THEN [kind |-> "err", text |-> "<no source info for span>"]
             ELSE [kind |-> "ok",
                   src |-> IF file.src # None THEN file.src[1]
                           ELSE file.external_src[1],
                   lo |-> bytepos_to_file_charpos(sp.file, sp.lo),
                   hi |-> bytepos_to_file_charpos(sp.file, sp.hi)]

\* pretty_src_path(sp), lines 38-46, and format!("{:?}", sp): two renderings of
\* the span's description
pretty_src_path(sp) == <<"pretty", sp.id>>
DebugSpan(sp) == <<"debug", sp.id>>

\* a faulty variant: a frame with no location starts from its terminator's span
initial_spans_term(frame) ==
    LET blck == frame.body.basic_blocks[1]
    IN  IF frame.loc # None /\ frame.loc[1].statement_index < Len(blck.statements)
        THEN <<blck.statements[frame.loc[1].statement_index + 1].span>>
        ELSE <<blck.terminator.span>>

\* render_source, lines 70-80: the span the chain starts from
initial_spans(frame) ==
    IF frame.loc # None
    THEN LET stmt == frame.loc[1].statement_index
             block == frame.loc[1].block
             blck == frame.body.basic_blocks[block + 1]
         IN  IF stmt = Len(blck.statements)
             THEN <<blck.terminator.span>>
             ELSE <<blck.statements[stmt + 1].span>>
    ELSE <<frame.body.span>>

RECURSIVE macro_callers(_)
\* render_source, lines 82-90: push the call site of the last span while it
\* has one
macro_callers(instr_spans) ==
    LET span == instr_spans[Len(instr_spans)].call_site
    IN  IF span # None THEN macro_callers(Append(instr_spans, span[1]))
        ELSE instr_spans

Rev(s) == [i \in 1..Len(s) |-> s[Len(s) + 1 - i]]

\* a faulty variant: the chain is rendered in the order it was collected
display_order_collected(instr_spans) == instr_spans

\* render_source, lines 92-94: instr_spans.into_iter().rev()
display_order(instr_spans) == Rev(instr_spans)

\* a faulty variant: the entry is computed and stored at every lookup
cache_entry_insert(c, runs, src) ==
    LET hash == Hash(src)
        e == [string |-> src, highlighted |-> syntax_highlight(src)]
    IN  [cache |-> [k \in DOMAIN c \cup {hash} |-> IF k = hash THEN e ELSE c[k]],
         runs |-> IF src \in DOMAIN runs THEN [runs EXCEPT ![src] = @ + 1]
                  ELSE runs @@ (src :> 1),
         entry |-> e]

\* render_source, lines 101-119: cache.entry(hash).or_insert_with(..); runs
\* counts the calls of syntax_highlight
cache_entry(c, runs, src) ==
    LET hash == Hash(src)
    IN  IF hash \in DOMAIN c
        THEN [cache |-> c, runs |-> runs, entry |-> c[hash]]
        ELSE LET e == [string |-> src, highlighted |-> syntax_highlight(src)]
             IN  [cache |-> c @@ (hash :> e),
                  runs |-> IF src \in DOMAIN runs THEN [runs EXCEPT ![src] = @ + 1]
                           ELSE runs @@ (src :> 1),
                  entry |-> e]

\* a faulty variant: a span that does not resolve is left out
unresolved_entry_skip(acc, sp, err) == acc

\* render_source, line 98: the entry of a span whose text does not resolve
unresolved_entry(acc, sp, err) ==
    Append(acc, [label |-> DebugSpan(sp), source |-> err])

RECURSIVE highlighted_sources(_, _, _, _)
\* render_source, lines 95-126: the closure mapped over the spans.  A panic
\* of mark_span ends the render; what the cache took in before stays.
highlighted_sources(spans, c, runs, acc) ==
    IF spans = <<>>
    THEN [kind |-> "ok", entries |-> acc, cache |-> c, runs |-> runs]
    ELSE
    LET sp == Head(spans)
        res == get_file_source_for_span(sp)
    IN  IF res.kind = "err"
        THEN highlighted_sources(Tail(spans), c, runs,
                                 unresolved_entry(acc, sp, res))
        ELSE
        LET ce == cache_entry(c, runs, res.src)
            m == mark_span(ce.entry.string, ce.entry.highlighted, res.lo, res.hi)
        IN  IF m.kind = "panic"
            THEN [kind |-> "panic", why |-> m.why, entries |-> <<>>,
                  cache |-> ce.cache, runs |-> ce.runs]
            ELSE highlighted_sources(Tail(spans), ce.cache, ce.runs,
                     Append(acc, [label |-> pretty_src_path(sp), source |-> m]))

\* render_source, lines 60-153
render_source(frame, c, runs) ==
    IF frame = None
    THEN [kind |-> "ok", entries |-> <<>>, cache |-> c, runs |-> runs]
    ELSE highlighted_sources(
             display_order(macro_callers(initial_spans(frame[1]))), c, runs, <<>>)

---------------------------------------------------------------------------
(* The text specification: syntax_highlight and mark_span as functions of  *)
(* their arguments.                                                        *)

NoResult == [kind |-> "none"]

\* the variables of the renderers, unused here
GraphIdle ==
    /\ body = [basic_blocks |-> <<>>]
    /\ breakpoints = {}
    /\ request = [op |-> "none"]
    /\ rendered = NoResult

SourceIdle ==
    /\ cache = <<>>
    /\ highlight_runs = <<>>
    /\ source_out = NoResult

InitText ==
    /\ pc = "start"
    /\ overflow_checks \in BOOLEAN
    /\ src_text \in Texts(MaxLen)
    /\ tokenizer \in TokenizersFor(LinesOf(src_text))
    /\ highlighted = <<>>
    /\ span_in = [lo |-> 0, hi |-> 0]
    /\ marked = NoResult
    /\ GraphIdle
    /\ SourceIdle

SyntaxHighlight ==
    /\ pc = "start"
    /\ highlighted' = syntax_highlight(src_text)
    /\ pc' = "highlighted"
    /\ UNCHANGED <<overflow_checks, tokenizer, src_text, span_in, marked,
                   body, breakpoints, request, rendered,
                   cache, highlight_runs, source_out>>

\* offsets up to one past the text's length: the contract violations of
\* mark_span are inputs too
MarkSpan ==
    /\ pc = "highlighted"
    /\ \E lo \in 0..(Len(src_text) + 1), hi \in 0..(Len(src_text) + 1) :
          /\ span_in' = [lo |-> lo, hi |-> hi]
          /\ marked' = mark_span(src_text, highlighted, lo, hi)
    /\ pc' = "marked"
    /\ UNCHANGED <<overflow_checks, tokenizer, src_text, highlighted,
                   body, breakpoints, request, rendered,
                   cache, highlight_runs, source_out>>

NextText == SyntaxHighlight \/ MarkSpan

SpecText == InitText /\ [][NextText]_vars

---------------------------------------------------------------------------
(* The graph specification: render_mir_svg and render_html on the frames   *)
(* of one Body.                                                            *)

TextIdle ==
    /\ src_text = <<>>
    /\ highlighted = <<>>
    /\ span_in = [lo |-> 0, hi |-> 0]
    /\ marked = NoResult

\* the Locations a frame of the Body may hold, the statement index one past
\* the terminator's (a violation of the caller's contract) included
Locations(mir) ==
    {l \in [block : 0..(Len(mir.basic_blocks) - 1),
            statement_index : 0..(MaxBodySize + 1)] :
        l.statement_index <= Len(mir.basic_blocks[l.block + 1].statements) + 1}

InitGraph ==
    /\ pc = "idle"
    /\ overflow_checks = FALSE
    /\ tokenizer = <<>>
    /\ TextIdle
    /\ SourceIdle
    /\ body \in Bodies(MaxBodySize)
    /\ breakpoints \in {{}, {Location(0, 0)}}
    /\ request = [op |-> "none"]
    /\ rendered = NoResult

\* render_html(frame, breakpoints), the frame at any Location or unwinding
RenderHtml ==
    /\ pc = "idle"
    /\ \E loc \in Options(Locations(body)) :
          /\ request' = [op |-> "render_html",
                         frame |-> Some([body |-> body, loc |-> loc]),
                         promoted |-> None]
          /\ rendered' = render_html([body |-> body, loc |-> loc], breakpoints)
    /\ pc' = "done"
    /\ UNCHANGED <<overflow_checks, tokenizer, textVars, body, breakpoints,
                   sourceVars>>

\* render_mir_svg(mir, breakpoints, w, promoted), called on its own
RenderMirSvg ==
    /\ pc = "idle"
    /\ \E promoted \in Options(0..MaxPromoted) :
          /\ request' = [op |-> "render_mir_svg", frame |-> None,
                         promoted |-> promoted]
          /\ rendered' = [kind |-> "ok",
                          svg |-> render_mir_svg(body, breakpoints, promoted),
                          unwinding |-> FALSE, overlay |-> None]
    /\ pc' = "done"
    /\ UNCHANGED <<overflow_checks, tokenizer, textVars, body, breakpoints,
                   sourceVars>>

\* the caller takes the markup; the next request may come
Return ==
    /\ pc = "done"
    /\ pc' = "idle"
    /\ request' = [op |-> "none"]
    /\ rendered' = NoResult
    /\ source_out' = NoResult
    /\ UNCHANGED <<overflow_checks, tokenizer, textVars, body, breakpoints,
                   cache, highlight_runs>>

NextGraph == RenderHtml \/ RenderMirSvg \/ Return

SpecGraph == InitGraph /\ [][NextGraph]_vars

---------------------------------------------------------------------------
(* The source specification: one debugging session of one thread.  The     *)
(* frame's Body is fixed, its Location moves; render_source and            *)
(* render_html are called again and again, the cache lives on.             *)

\* the tokenizers of the session: every split of the files' lines, one style
SourceTokenizers ==
    {f \in TokenizersFor(UNION {LinesOf(FileText(file)) : file \in DOMAIN SourceFiles}) :
        \A l \in DOMAIN f : \A i \in 1..Len(f[l]) : f[l][i].style = "plain"}

\* frame.current_loc().ok(): a Location of the block, or none while unwinding
FrameLocations(mir) ==
    Options({Location(0, i) : i \in 0..Len(mir.basic_blocks[1].statements)})

InitSource ==
    /\ pc = "idle"
    /\ overflow_checks = FALSE
    /\ tokenizer \in SourceTokenizers
    /\ TextIdle
    /\ body \in SourceBodies
    /\ breakpoints = {}
    /\ request = [op |-> "none"]
    /\ rendered = NoResult
    /\ SourceIdle

\* render_source(tcx, frame): no frame, or the frame at one of its Locations
RenderSource ==
    /\ pc = "idle"
    /\ \A t \in DOMAIN highlight_runs : highlight_runs[t] <= MaxHighlightRuns
    /\ \E frame \in {None} \cup {Some([body |-> body, loc |-> loc]) :
                                   loc \in FrameLocations(body)} :
          LET r == render_source(frame, cache, highlight_runs)
          IN  /\ request' = [op |-> "render_source", frame |-> frame,
                             promoted |-> None]
              /\ source_out' = [kind |-> r.kind, entries |-> r.entries]
              /\ cache' = r.cache
              /\ highlight_runs' = r.runs
    /\ pc' = "done"
    /\ UNCHANGED <<overflow_checks, tokenizer, textVars, body, breakpoints,
                   rendered>>

NextSource == RenderSource \/ RenderHtml \/ Return

SpecSource == InitSource /\ [][NextSource]_vars

---------------------------------------------------------------------------
(* Properties of render_mir_svg and render_html, under SpecGraph.          *)

IsRenderHtml == pc = "done" /\ request.op = "render_html"
IsRenderMirSvg == pc = "done" /\ request.op = "render_mir_svg"
IsRenderSource == pc = "done" /\ request.op = "render_source"

\* the block a render_html request stands in, and its statement index
ReqBlock == request.frame[1].body.basic_blocks[request.frame[1].loc[1].block + 1]
ReqIndex == request.frame[1].loc[1].statement_index
ReqAtLocation == IsRenderHtml /\ request.frame[1].loc # None
ReqValidLocation == ReqAtLocation /\ ReqIndex <= Len(ReqBlock.statements)

\* C1: for every Body and every optional promoted tag given to
\* render_mir_svg, the graph of the emitted document has exactly one node per
\* basic block and no other node, and as many edges leave a block's node as
\* its terminator reports successors.
C1_NodesAndEdges ==
    IsRenderMirSvg =>
        LET dot == rendered.svg
            blocks == 0..(Len(body.basic_blocks) - 1)
        IN  /\ Len(dot.nodes) = Len(body.basic_blocks)
            /\ GraphNodes(dot) = {node(request.promoted, b) : b \in blocks}
            /\ \A b \in blocks :
                  Cardinality({i \in 1..Len(dot.edges) :
                                  dot.edges[i].from = node(request.promoted, b)})
                  = Len(successors(body.basic_blocks[b + 1].terminator))

\* the edge-color entries for normal successors ts and unwind successors us of
\* block b: each normal one tagged green, then each unwind one tagged red
ColorEntries(b, ts, us) ==
    [i \in 1..Len(ts) |->
        [title |-> <<<<"bb", b>>, <<"bb", ts[i]>>>>, color |-> "green"]]
    \o [i \in 1..Len(us) |->
        [title |-> <<<<"bb", b>>, <<"bb", us[i]>>>>, color |-> "red"]]

C9_RowPosition ==
    ReqValidLocation =>
        LET n == Len(ReqBlock.statements)
            i == ReqIndex
        IN  /\ rendered.kind = "ok"
            /\ rendered.overlay # None
            /\ rendered.overlay[1].stmt =
                  IF i = n THEN (IF n = 0 THEN 6 ELSE n + 7) ELSE i + 6
            /\ \A j \in 0..n :
                  j # i => stmt_row(ReqBlock, j).row # rendered.overlay[1].stmt

\* the terminator of a block with statements was marked
C9_Witness ==
    /\ ReqValidLocation
    /\ Len(ReqBlock.statements) >= 2
    /\ ReqIndex = Len(ReqBlock.statements)
    /\ rendered.kind = "ok"
    /\ rendered.overlay[1].stmt = Len(ReqBlock.statements) + 7

---------------------------------------------------------------------------
(* Properties of syntax_highlight and mark_span, under SpecText.           *)

RECURSIVE RangeLengths(_)
RangeLengths(ranges) ==
    IF ranges = <<>> THEN 0
    ELSE (Head(ranges).range.end - Head(ranges).range.start)
         + RangeLengths(Tail(ranges))

\* the styled ranges partition a text of n bytes
IsPartition(ranges, n) ==
    /\ ranges # <<>> => ranges[1].range.start = 0
    /\ ranges # <<>> => ranges[Len(ranges)].range.end = n
    /\ ranges = <<>> => n = 0
    /\ \A i \in 1..Len(ranges) : ranges[i].range.start <= ranges[i].range.end
    /\ \A i \in 1..(Len(ranges) - 1) :
          ranges[i + 1].range.start = ranges[i].range.end
    /\ RangeLengths(ranges) = n

\* C5: for any text, the empty one and one whose last line has no terminator
\* included, the ranges syntax_highlight returns start at 0, each starts where
\* the one before ends, the last ends at the text's length, and their lengths
\* sum to the text's length.
C5_Partition ==
    pc \in {"highlighted", "marked"} => IsPartition(highlighted, Len(src_text))

\* a text of two lines, the last without terminator, in three tokens
C5_Witness ==
    /\ pc = "highlighted"
    /\ Len(LinesWithEndings(src_text)) = 2
    /\ src_text[Len(src_text)] # "n"
    /\ Len(highlighted) = 3

\* C4: for every text with its styled ranges and all offsets
\* 0 <= lo <= hi <= length, mark_span fires no assertion and returns the slice
\* before, the marker, the slice after: text[0:lo] before and text[hi:end]
\* after; if lo = hi the marker is the pointer glyph and nothing is marked, if
\* lo < hi the marked text is text[lo:hi].
C4_MarksTheSpan ==
    (pc = "marked" /\ span_in.lo <= span_in.hi /\ span_in.hi <= Len(src_text)) =>
        /\ marked.kind = "ok"
        /\ Concat(marked.before) = SubSeq(src_text, 1, span_in.lo)
        /\ Concat(marked.after) = SubSeq(src_text, span_in.hi + 1, Len(src_text))
        /\ span_in.lo = span_in.hi =>
              (marked.marker = "glyph" /\ marked.it = <<>>)
        /\ span_in.lo < span_in.hi =>
              (/\ marked.marker = "wrap"
               /\ Concat(marked.it) = SubSeq(src_text, span_in.lo + 1, span_in.hi))

\* C6: mark_span called with lo > hi, or with lo or hi beyond the text's
\* length, never returns markup; render_html called with a statement index
\* beyond the block's statement count never returns an overlay.
C6_ViolationsAbort ==
    /\ (/\ pc = "marked"
        /\ \/ span_in.lo > span_in.hi
           \/ span_in.lo > Len(src_text)
           \/ span_in.hi > Len(src_text))
       => marked.kind = "panic"
    /\ (ReqAtLocation /\ ReqIndex > Len(ReqBlock.statements))
       => rendered.kind = "panic"

---------------------------------------------------------------------------
(* Properties of render_source and the highlight cache, under SpecSource.  *)

RECURSIVE SpanChain(_)
\* a span and the call sites of its macro backtrace, innermost first
SpanChain(sp) ==
    IF sp.call_site = None THEN <<sp>>
    ELSE <<sp>> \o SpanChain(sp.call_site[1])

\* the span render_source starts from: the statement's, the terminator's at
\* the end of the block, the Body's when the frame has no location
ReqSpan ==
    LET frame == request.frame[1]
        blck == frame.body.basic_blocks[1]
    IN  IF frame.loc = None THEN frame.body.span
        ELSE IF frame.loc[1].statement_index = Len(blck.statements)
             THEN blck.terminator.span
             ELSE blck.statements[frame.loc[1].statement_index + 1].span

ReqOnFrame == IsRenderSource /\ request.frame # None

Resolves(sp) == get_file_source_for_span(sp).kind = "ok"

\* what one span is rendered to, whatever else is in the chain
EntryOf(sp) ==
    LET res == get_file_source_for_span(sp)
    IN  IF res.kind = "err"
        THEN [label |-> <<"debug", sp.id>>,
              source |-> [kind |-> "err", text |-> res.text]]
        ELSE [label |-> <<"pretty", sp.id>>,
              source |-> mark_span(res.src, syntax_highlight(res.src),
                                   res.lo, res.hi)]

\* C3: the tokenizer runs at most once per distinct text; an entry of the
\* cache is never changed or removed; an entry holds the text it is keyed by
\* and the ranges syntax_highlight gives for it, so a later lookup of the same
\* content returns what the first one did.
C3_CacheIdempotent ==
    /\ [](\A t \in DOMAIN highlight_runs : highlight_runs[t] <= 1)
    /\ [](\A k \in DOMAIN cache :
            /\ Hash(cache[k].string) = k
            /\ cache[k].highlighted = syntax_highlight(cache[k].string)
            /\ cache[k].string \in DOMAIN highlight_runs)
    /\ [][\A k \in DOMAIN cache : k \in DOMAIN cache' /\ cache'[k] = cache[k]]_vars

\* one render looked the same file up three times, after an earlier render
\* had stored it
C3_Witness ==
    /\ ReqOnFrame
    /\ source_out.kind = "ok"
    /\ Len(source_out.entries) = 3
    /\ \A i \in 1..3 : SpanChain(ReqSpan)[i].file = "lib.rs"
    /\ \A i \in 1..3 : source_out.entries[i].source.kind = "ok"
    /\ highlight_runs[FileText("lib.rs")] = 1

\* C7: a span whose file text does not resolve yields, at its position, the
\* span's description with the error text; every other span is rendered as it
\* is on its own; the output has as many entries as the chain has spans,
\* whatever spans fail to resolve; and a render is cut short only by
\* mark_span on a span that does resolve.
C7_UnresolvedIsLocal ==
    ReqOnFrame =>
        LET chain == SpanChain(ReqSpan)
            n == Len(chain)
        IN  /\ source_out.kind = "ok" =>
                  /\ Len(source_out.entries) = n
                  /\ \A i \in 1..n :
                        source_out.entries[i] = EntryOf(chain[n + 1 - i])
            /\ source_out.kind = "panic" =>
                  \E i \in 1..n :
                      Resolves(chain[i]) /\ EntryOf(chain[i]).source.kind = "panic"

\* a chain of three: the middle span does not resolve, the others are marked
C7_Witness ==
    /\ ReqOnFrame
    /\ source_out.kind = "ok"
    /\ Len(source_out.entries) = 3
    /\ source_out.entries[1].source.kind = "ok"
    /\ source_out.entries[2].source.kind = "err"
    /\ source_out.entries[3].source.kind = "ok"

\* C8: for a chain of n spans linked by call sites, s1 innermost to sn
\* outermost, render_source outputs n entries in the order sn, ..., s1.
C8_OutermostFirst ==
    (ReqOnFrame /\ source_out.kind = "ok") =>
        LET chain == SpanChain(ReqSpan)
            n == Len(chain)
        IN  /\ Len(source_out.entries) = n
            /\ \A i \in 1..n :
                  source_out.entries[i].label[2] = chain[n + 1 - i].id

\* the chain A -> B -> C of a statement was rendered as C, B, A
C8_Witness ==
    /\ ReqOnFrame
    /\ source_out.kind = "ok"
    /\ request.frame[1].loc = Some(Location(0, 0))
    /\ Len(request.frame[1].body.basic_blocks[1].statements) = 1
    /\ Len(source_out.entries) = 3
    /\ source_out.entries[1].label[2] = <<"call_site", 2>>
    /\ source_out.entries[2].label[2] = <<"call_site", 1>>
    /\ source_out.entries[3].label[2] = <<"stmt", 0, 0>>

\* C10 as claimed: when the current location is None the graph pane is the
\* graph with no marked row and no edge colors, and the source pane has no
\* entries.
C10_NoLocationEmpty ==
    /\ (IsRenderHtml /\ request.frame[1].loc = None) =>
          (rendered.kind = "ok" /\ rendered.overlay = None)
    /\ (ReqOnFrame /\ request.frame[1].loc = None) =>
          source_out.entries = <<>>

\* C10, amended: when the frame's location is None, render_html returns the
\* graph of the Body and the "Unwinding" notice, with no marked row and no
\* edge colors, and render_source renders the chain of the Body's span, its
\* outermost call site first, unless mark_span cuts the render short; the
\* source pane has no entries when there is no frame.
C10_NoLocationPanes ==
    /\ (IsRenderHtml /\ request.frame[1].loc = None) =>
          rendered = [kind |-> "ok",
                      svg |-> render_mir_svg(body, breakpoints, None),
                      unwinding |-> TRUE, overlay |-> None]
    /\ (ReqOnFrame /\ request.frame[1].loc = None /\ source_out.kind = "ok") =>
          LET chain == SpanChain(body.span)
          IN  /\ Len(source_out.entries) = Len(chain)
              /\ source_out.entries[Len(chain)].label[2] = <<"body">>
    /\ (IsRenderSource /\ request.frame = None) =>
          (source_out.kind = "ok" /\ source_out.entries = <<>>)

\* the source pane of a frame with no location shows the Body's span
C10_Witness ==
    /\ ReqOnFrame
    /\ request.frame[1].loc = None
    /\ source_out.kind = "ok"
    /\ Len(source_out.entries) = 2
    /\ source_out.entries[2].label = <<"pretty", <<"body">>>>

=============================================================================
